---- MODULE Spec2Model ----
(***************************************************************************)
(* Model of obsws.py: AudioDeviceManager (device resolution against the    *)
(* host enumeration), OBSWebsocket (lazily connected RPC session) and the  *)
(* run of main (reporting sub-pass, then apply sub-pass).                  *)
(*                                                                         *)
(* Exceptions are modelled as an error kind carried in results and, once   *)
(* nothing catches them, in the variable err with pc = "failed".           *)
(***************************************************************************)
EXTENDS Integers, Sequences, FiniteSets, TLC

\* ------------------------------------------------------------------ bounds
\* Largest number of host devices (speakers and microphones together).
MaxDevices == 2
\* Largest number of configured routes (inputs and outputs together).
MaxRoutes == 2
\* Depth at which the interpreter gives up a recursion (RecursionError).
RecursionLimit == 3
\* Longest sequence of session operations explored by SessionSpec.
MaxOps == 3

\* ------------------------------------------------------------- value sets
DeviceNames == {"A", "B"}
ConfigNames == DeviceNames \cup {"default"}
SpeakerIds == <<"s1", "s2", "s3", "s4">>
MicIds == <<"m1", "m2", "m3", "m4">>
InputRoleKeys == <<"mic-1", "mic-2", "mic-3", "mic-4">>
OutputRoleKeys == <<"desktop-1", "desktop-2", "desktop-3", "desktop-4">>

\* Label the remote controller gives the special source of a role.
LabelOf(role) == "src:" \o role

NoField == "<absent>"
NoDevice == [name |-> "", id |-> ""]
NoRoute == <<"", 0>>

SeqsUpTo(S, n) == UNION {[1..k -> S] : k \in 0..n}

VARIABLES
  speakers,        \* soundcard.all_speakers(): sequence of [name, id]
  mics,            \* soundcard.all_microphones(): sequence of [name, id]
  inputs,          \* config['inputs']: sequence of [obs_device, device_name]
  outputs,         \* config['outputs']
  default_input,   \* AudioDeviceManager.default_input
  default_output,  \* AudioDeviceManager.default_output
  connected,       \* OBSWebsocket.connected
  special,         \* remote: GetSpecialSources response, role -> label
  remoteSettings,  \* remote: label -> sourceSettings.device_id (or NoField)
  log,             \* history of transport actions (handshakes and commands)
  out,             \* history of printed diagnostics, report lines and
                   \* "Setting OBS source" lines (banners are left out)
  pc,              \* position in the run
  group,           \* "inputs" / "outputs": the loop of the apply sub-pass
  idx,             \* loop index (reporting loop or apply loop)
  device_names,    \* print_sources_settings: the labels being iterated
  source_name,     \* set_audio_device_settings: label of the current route
  err,             \* the exception raised by the last operation, or "none"
  mode,            \* "main": a run of main; "session": operations of the
                   \* OBSWebsocket in any order; "resolve": lookups of the
                   \* AudioDeviceManager in any order
  ops,             \* number of session operations invoked so far
  os_default,      \* soundcard.default_microphone().name (input) and
                   \* soundcard.default_speaker().name (output)
  ret              \* what the last operation invoked by a caller returned

vars == <<speakers, mics, inputs, outputs, default_input, default_output,
          connected, special, remoteSettings, log, out, pc, group, idx,
          device_names, source_name, err, mode, ops, os_default, ret>>

host == <<speakers, mics, inputs, outputs, default_input, default_output,
          os_default>>

\* ------------------------------------------------- AudioDeviceManager
\* Results of a lookup: kind is "device" (dev is the record), "None",
\* "default" (the string 'default'), or the exception raised ("IndexError",
\* "ValueError", "RecursionError"); searched names the enumeration that was
\* fetched ("speakers", "mics", "both").
Result(kind, dev, searched) == [kind |-> kind, dev |-> dev, searched |-> searched]

\* all_devices: soundcard.all_speakers() + soundcard.all_microphones()
all_devices == speakers \o mics

\* Variant of first_match that returns device[-1].
last_match(devices, prop, value) ==
  LET found == SelectSeq(devices, LAMBDA d : d[prop] = value)
  IN  IF Len(found) = 0 THEN [kind |-> "IndexError", dev |-> NoDevice]
      ELSE [kind |-> "device", dev |-> found[Len(found)]]

\* device = list(filter(...)); return device[0]
first_match(devices, prop, value) ==
  LET found == SelectSeq(devices, LAMBDA d : d[prop] = value)
  IN  IF Len(found) = 0 THEN [kind |-> "IndexError", dev |-> NoDevice]
      ELSE [kind |-> "device", dev |-> found[1]]

RECURSIVE select_device_requery(_, _, _, _)
\* Variant of select_device that asks the platform for its default device
\* when it resolves 'default'.
select_device_requery(prop, value, is_input, depth) ==
  IF depth > RecursionLimit THEN Result("RecursionError", NoDevice, "none")
  ELSE IF is_input = "None" THEN
    IF value = "default" THEN Result("None", NoDevice, "both")
    ELSE LET r == first_match(all_devices, prop, value)
         IN  Result(r.kind, r.dev, "both")
  ELSE IF is_input = "True" THEN
    IF value = "default"
    THEN select_device_requery("name", os_default.input, "True", depth + 1)
    ELSE LET r == first_match(mics, prop, value)
         IN  Result(r.kind, r.dev, "mics")
  ELSE
    IF value = "default"
    THEN select_device_requery("name", os_default.output, "True", depth + 1)
    ELSE LET r == first_match(speakers, prop, value)
         IN  Result(r.kind, r.dev, "speakers")

RECURSIVE select_device(_, _, _, _)
\* select_device(prop, value, is_input) at recursion depth `depth`;
\* is_input is "None", "True" or "False".
select_device(prop, value, is_input, depth) ==
  IF depth > RecursionLimit THEN Result("RecursionError", NoDevice, "none")
  ELSE IF is_input = "None" THEN
    IF value = "default" THEN Result("None", NoDevice, "both")
    ELSE LET r == first_match(all_devices, prop, value)
         IN  Result(r.kind, r.dev, "both")
  ELSE IF is_input = "True" THEN
    IF value = "default"
    THEN select_device("name", default_input, "True", depth + 1)
    ELSE LET r == first_match(mics, prop, value)
         IN  Result(r.kind, r.dev, "mics")
  ELSE
    IF value = "default"
    THEN select_device("name", default_output, "True", depth + 1)
    ELSE LET r == first_match(speakers, prop, value)
         IN  Result(r.kind, r.dev, "speakers")

\* Variant of get_default that hands back the string 'default' as the
\* device to push, leaving its meaning to the remote controller.
get_default_sentinel(is_input) ==
  Result("device", [name |-> "default", id |-> "default"], "none")

get_default(is_input) == select_device("name", "default", is_input, 0)

\* print_device_listing(with_ids=False): the names printed, speakers first;
\* a section is printed only when its list is not empty.
NamesOf(devices) == [i \in 1..Len(devices) |-> devices[i].name]
print_device_listing == [speakers |-> NamesOf(speakers), mics |-> NamesOf(mics)]

\* One printed line: what it says (kind), about which remote source, the
\* device name or id it names, the device listing printed with it, and the
\* enumeration that was fetched to produce it.
Line(kind, source, name, listing, searched) ==
  [kind |-> kind, source |-> source, name |-> name, listing |-> listing,
   searched |-> searched]
NoListing == [speakers |-> <<>>, mics |-> <<>>]

\* device_by_name: the lookup result together with what it printed.
device_by_name(name, is_input, replace_default) ==
  IF replace_default /\ name = "default"
  THEN [res |-> get_default(is_input), prints |-> <<>>]
  ELSE LET r == select_device("name", name, is_input, 0)
       IN  IF r.kind = "IndexError"
           THEN [res |-> Result("ValueError", NoDevice, r.searched),
                 prints |-> <<Line("not_found", "", name, print_device_listing,
                                    r.searched)>>]
           ELSE [res |-> r, prints |-> <<>>]

\* Variant of output_by_name that passes is_input=True.
output_by_name_as_input(name, replace_default) ==
  device_by_name(name, "True", replace_default)

input_by_name(name, replace_default) == device_by_name(name, "True", replace_default)
output_by_name(name, replace_default) == device_by_name(name, "False", replace_default)

\* Variant of device_by_id without the except IndexError handler.
device_by_id_uncaught(id) == select_device("id", id, "None", 0)

\* device_by_id: a record, None, or the string 'default'.
device_by_id(id) ==
  LET r == select_device("id", id, "None", 0)
  IN  IF r.kind = "IndexError"
      THEN IF id = "default" THEN Result("default", NoDevice, r.searched)
           ELSE Result("None", NoDevice, r.searched)
      ELSE r

\* ------------------------------------------------------- OBSWebsocket
\* A session value: the connected flag, the transport history and the
\* exception the operation raised ("none" when it returned).
Session(c, l, e) == [connected |-> c, log |-> l, err |-> e]

\* One transport action. conn is the value of OBSWebsocket.connected when
\* the action was started; route names the configured route on whose behalf
\* a SetSourceSettings was sent (NoRoute otherwise).
Event(cmd, sourceName, device_id, ok, conn, route) ==
  [cmd |-> cmd, sourceName |-> sourceName, device_id |-> device_id,
   ok |-> ok, conn |-> conn, route |-> route]

\* self.ws.connect() / self.ws.disconnect() / self.ws.call(...): the
\* transport either completes (ok) or raises.
ws_connect(s, ok) ==
  Session(s.connected,
          Append(s.log, Event("connect", "", "", ok, s.connected, NoRoute)),
          IF ok THEN "none" ELSE "TransportError")

ws_disconnect(s, ok) ==
  Session(s.connected,
          Append(s.log, Event("disconnect", "", "", ok, s.connected, NoRoute)),
          IF ok THEN "none" ELSE "TransportError")

ws_call(s, cmd, sourceName, device_id, ok, route) ==
  Session(s.connected,
          Append(s.log, Event(cmd, sourceName, device_id, ok, s.connected, route)),
          IF ok THEN "none" ELSE "TransportError")

\* Variant of connect without the "if not self.connected" test.
connect_always(s, ok) ==
  LET t == ws_connect(s, ok)
  IN  IF t.err = "none" THEN Session(TRUE, t.log, "none") ELSE t

\* OBSWebsocket.connect
connect(s, ok) ==
  IF ~s.connected
  THEN LET t == ws_connect(s, ok)
       IN  IF t.err = "none" THEN Session(TRUE, t.log, "none") ELSE t
  ELSE Session(s.connected, s.log, "none")

\* Variant of disconnect without "self.connected = False".
disconnect_keeps_flag(s, ok) ==
  IF s.connected THEN ws_disconnect(s, ok)
  ELSE Session(s.connected, s.log, "none")

\* OBSWebsocket.disconnect
disconnect(s, ok) ==
  IF s.connected
  THEN LET t == ws_disconnect(s, ok)
       IN  IF t.err = "none" THEN Session(FALSE, t.log, "none") ELSE t
  ELSE Session(s.connected, s.log, "none")

\* Variant of call without "await self.connect()".
call_without_connect(s, cmd, sourceName, device_id, okc, oks, route) ==
  ws_call(s, cmd, sourceName, device_id, oks, route)

\* Variant of call that swallows the exception of the transport.
call_swallow(s, cmd, sourceName, device_id, okc, oks, route) ==
  LET t == connect(s, okc)
      u == IF t.err # "none" THEN t
           ELSE ws_call(t, cmd, sourceName, device_id, oks, route)
  IN  Session(u.connected, u.log, "none")

\* OBSWebsocket.call
call(s, cmd, sourceName, device_id, okc, oks, route) ==
  LET t == connect(s, okc)
  IN  IF t.err # "none" THEN t
      ELSE ws_call(t, cmd, sourceName, device_id, oks, route)

\* The order in which the GetSpecialSources response lists its roles.
RoleOrder == OutputRoleKeys \o InputRoleKeys

\* result.values() after del result['status']
SpecialValues ==
  LET present == SelectSeq(RoleOrder, LAMBDA r : r \in DOMAIN special)
  IN  [i \in 1..Len(present) |-> special[present[i]]]

\* OBSWebsocket.get_audio_devices: session and the labels returned.
get_audio_devices(s, okc, oks) ==
  LET t == connect(s, okc)
      u == IF t.err # "none" THEN t
           ELSE ws_call(t, "GetSpecialSources", "", "", oks, NoRoute)
  IN  [sess |-> u, value |-> IF u.err = "none" THEN SpecialValues ELSE <<>>]

\* OBSWebsocket.get_obs_audio_device_name: result[device] raises KeyError
\* when the response has no such key.
get_obs_audio_device_name(s, device, okc, oks) ==
  LET t == connect(s, okc)
      u == IF t.err # "none" THEN t
           ELSE ws_call(t, "GetSpecialSources", "", "", oks, NoRoute)
  IN  IF u.err # "none" THEN [sess |-> u, value |-> ""]
      ELSE IF device \in DOMAIN special
           THEN [sess |-> u, value |-> special[device]]
           ELSE [sess |-> Session(u.connected, u.log, "KeyError"), value |-> ""]

\* Variant of get_audiodevice_settings that sends SetSourceSettings with
\* the source name alone, the request that returns the settings too.
get_audiodevice_settings_by_set(s, device_name, okc, oks) ==
  LET t == connect(s, okc)
      u == IF t.err # "none" THEN t
           ELSE ws_call(t, "SetSourceSettings", device_name, "", oks, NoRoute)
  IN  [sess |-> u,
       value |-> IF u.err = "none" /\ device_name \in DOMAIN remoteSettings
                 THEN remoteSettings[device_name] ELSE NoField]

\* Variant of get_audiodevice_settings that asks for the parameter's
\* default, the source of the first desktop role, whatever it is passed.
get_audiodevice_settings_desktop(s, device_name, okc, oks) ==
  LET asked == LabelOf(OutputRoleKeys[1])
      t == connect(s, okc)
      u == IF t.err # "none" THEN t
           ELSE ws_call(t, "GetSourceSettings", asked, "", oks, NoRoute)
  IN  [sess |-> u,
       value |-> IF u.err = "none" /\ asked \in DOMAIN remoteSettings
                 THEN remoteSettings[asked] ELSE NoField]

\* OBSWebsocket.get_audiodevice_settings: session and
\* result['sourceSettings'] as the device_id it carries (NoField when the
\* response has none).
get_audiodevice_settings(s, device_name, okc, oks) ==
  LET t == connect(s, okc)
      u == IF t.err # "none" THEN t
           ELSE ws_call(t, "GetSourceSettings", device_name, "", oks, NoRoute)
  IN  [sess |-> u,
       value |-> IF u.err = "none" /\ device_name \in DOMAIN remoteSettings
                 THEN remoteSettings[device_name] ELSE NoField]

\* set_obs_source: the print, then ws.call('SetSourceSettings', ...)
set_obs_source(s, sourceName, device, okc, oks, route) ==
  [sess |-> call(s, "SetSourceSettings", sourceName, device.id, okc, oks, route),
   prints |-> <<Line("setting", sourceName, device.name, NoListing, "none")>>]

\* The remote controller after a SetSourceSettings that was delivered.
RemoteAfterSet(sourceName, device_id) ==
  IF sourceName \in DOMAIN remoteSettings
  THEN [remoteSettings EXCEPT ![sourceName] = device_id]
  ELSE remoteSettings

\* --------------------------------------------------------- control flow
Position(p, g, i) == [pc |-> p, group |-> g, idx |-> i]

\* for conf in outputs (skipped when the list is empty), then main's
\* ws.disconnect()
StartOutputs ==
  IF Len(outputs) > 0 THEN Position("apply_name", "outputs", 1)
  ELSE Position("disconnect", "", 0)

\* for conf in inputs (skipped when the list is empty)
StartInputs ==
  IF Len(inputs) > 0 THEN Position("apply_name", "inputs", 1)
  ELSE StartOutputs

\* Variant of NextRoute that looks the source name up once per group: the
\* next route of the group is entered after its lookup.
NextRoute_one_lookup(g, i) ==
  IF g = "inputs"
  THEN IF i < Len(inputs) THEN Position("apply_set", "inputs", i + 1)
       ELSE StartOutputs
  ELSE IF i < Len(outputs) THEN Position("apply_set", "outputs", i + 1)
       ELSE Position("disconnect", "", 0)

\* The position after route i of group g has been applied.
NextRoute(g, i) ==
  IF g = "inputs"
  THEN IF i < Len(inputs) THEN Position("apply_name", "inputs", i + 1)
       ELSE StartOutputs
  ELSE IF i < Len(outputs) THEN Position("apply_name", "outputs", i + 1)
       ELSE Position("disconnect", "", 0)

\* Where print_sources_settings returns to.
AfterReport ==
  IF mode = "main" THEN StartInputs ELSE Position("idle", "", 0)

\* No operation of the program catches an exception other than the
\* IndexError handled inside device_by_name and device_by_id: an operation
\* that raised ends the run of main, at the route it was working on.
after(e, next) ==
  IF e = "none" THEN next
  ELSE IF mode = "main" THEN Position("failed", group, idx)
  ELSE Position("idle", "", 0)

Routes(g) == IF g = "inputs" THEN inputs ELSE outputs

\* The line print_sources_settings prints for a source set to device_id.
report_line(obs_device_name, device_id) ==
  LET device == device_by_id(device_id)
  IN  IF device.kind = "None"
      THEN Line("unknown", obs_device_name, device_id, NoListing, device.searched)
      ELSE IF device.kind = "default"
      THEN Line("default", obs_device_name, "default", NoListing, device.searched)
      ELSE Line("device", obs_device_name, device.dev.name, NoListing,
                device.searched)

\* ------------------------------------------------------- initial states
\* What an operation handed back to its caller: the operation and its
\* argument, how it ended (a Result kind, or the exception raised, or
\* "none"), the device record returned and the plain value returned.
Ret(op, arg, kind, dev, value) ==
  [op |-> op, arg |-> arg, kind |-> kind, dev |-> dev, value |-> value]
NoRet == Ret("", "", "none", NoDevice, "")

Devices(names, ids) == [i \in 1..Len(names) |-> [name |-> names[i], id |-> ids[i]]]
RoutesOf(names, roles) ==
  [i \in 1..Len(names) |-> [obs_device |-> roles[i], device_name |-> names[i]]]
RolesUpTo(n) == {InputRoleKeys[i] : i \in 1..n} \cup {OutputRoleKeys[i] : i \in 1..n}
SpecialOf(roles) == [r \in roles |-> LabelOf(r)]
SettingValues == {"default", "m1", "zz", NoField}

\* The configuration written in the module: config = {...}, with "A" for
\* the microphone name and "B" for the speaker name, on a host that has both.
ModuleRoles == {"mic-1", "mic-2", "desktop-1"}
ModuleHost ==
  /\ os_default = [input |-> "A", output |-> "B"]
  /\ speakers = Devices(<<"B">>, SpeakerIds)
  /\ mics = Devices(<<"A">>, MicIds)
  /\ inputs = RoutesOf(<<"A", "default">>, InputRoleKeys)
  /\ outputs = RoutesOf(<<"B">>, OutputRoleKeys)
  /\ default_input = "A"
  /\ default_output = "B"

Idle ==
  /\ connected = FALSE
  /\ log = <<>>
  /\ out = <<>>
  /\ group = ""
  /\ idx = 0
  /\ device_names = <<>>
  /\ source_name = ""
  /\ err = "none"
  /\ ops = 0
  /\ ret = NoRet

\* Any host and configuration within the bounds, in front of a remote
\* controller that has every special source, each set to 'default'.
InitHosts ==
  /\ \E sn \in SeqsUpTo(DeviceNames, MaxDevices) :
       \E mn \in SeqsUpTo(DeviceNames, MaxDevices - Len(sn)) :
         /\ speakers = Devices(sn, SpeakerIds)
         /\ mics = Devices(mn, MicIds)
  /\ \E inn \in SeqsUpTo(ConfigNames, MaxRoutes) :
       \E outn \in SeqsUpTo(ConfigNames, MaxRoutes - Len(inn)) :
         /\ inputs = RoutesOf(inn, InputRoleKeys)
         /\ outputs = RoutesOf(outn, OutputRoleKeys)
  /\ default_input \in ConfigNames
  /\ default_output \in ConfigNames
  /\ os_default = [input |-> "A", output |-> "B"]
  /\ special = SpecialOf(RolesUpTo(MaxRoutes))
  /\ remoteSettings = [l \in {LabelOf(r) : r \in RolesUpTo(MaxRoutes)} |-> "default"]

\* The module's configuration in front of any remote controller: any of
\* the special sources may be missing, any source may be set to any value.
InitRemotes ==
  /\ ModuleHost
  /\ \E present \in SUBSET ModuleRoles : special = SpecialOf(present)
  /\ remoteSettings \in [{LabelOf(r) : r \in ModuleRoles} -> SettingValues]

\* The state when main reaches ws.connect(): the AudioDeviceManager and
\* the OBSWebsocket have been constructed.
Init ==
  /\ mode = "main"
  /\ pc = "start"
  /\ Idle
  /\ (InitHosts \/ InitRemotes)

\* A constructed OBSWebsocket on which operations are invoked in any order.
InitSession ==
  /\ mode = "session"
  /\ pc = "idle"
  /\ Idle
  /\ ModuleHost
  /\ special = SpecialOf(ModuleRoles)
  /\ remoteSettings = [l \in {LabelOf(r) : r \in ModuleRoles} |-> "default"]

\* -------------------------------------------------------------- actions
Self == Session(connected, log, "none")

Goto(p) ==
  /\ pc' = p.pc
  /\ group' = p.group
  /\ idx' = p.idx

\* main: await ws.connect()
MainConnect ==
  /\ mode = "main" /\ pc = "start"
  /\ \E ok \in BOOLEAN :
       LET s == connect(Self, ok)
       IN  /\ connected' = s.connected
           /\ log' = s.log
           /\ err' = s.err
           /\ Goto(after(s.err, Position("report_get", "", 0)))
  /\ UNCHANGED <<host, special, remoteSettings, out, device_names,
                 source_name, mode, ops, ret>>

\* print_sources_settings up to the loop: self.connect(), then
\* device_names = await self.get_audio_devices()
ReportGetDevices ==
  /\ pc = "report_get"
  /\ \E okc \in BOOLEAN, oks \in BOOLEAN :
       LET s == connect(Self, okc)
           r == IF s.err # "none" THEN [sess |-> s, value |-> <<>>]
                ELSE get_audio_devices(s, okc, oks)
       IN  /\ connected' = r.sess.connected
           /\ log' = r.sess.log
           /\ err' = r.sess.err
           /\ device_names' = r.value
           /\ Goto(after(r.sess.err,
                         IF Len(r.value) = 0 THEN AfterReport
                         ELSE Position("report_source", "", 1)))
  /\ UNCHANGED <<host, special, remoteSettings, out, source_name, mode, ops, ret>>

\* print_sources_settings: one iteration of the loop over device_names.
ReportSource ==
  /\ pc = "report_source"
  /\ \E okc \in BOOLEAN, oks \in BOOLEAN :
       LET name == device_names[idx]
           r == get_audiodevice_settings(Self, name, okc, oks)
           e == IF r.sess.err # "none" THEN r.sess.err
                ELSE IF r.value = NoField THEN "KeyError"
                ELSE "none"
           last == idx >= Len(device_names)
       IN  /\ connected' = r.sess.connected
           /\ log' = r.sess.log
           /\ err' = e
           /\ out' = IF e = "none" THEN Append(out, report_line(name, r.value))
                     ELSE out
           /\ device_names' = IF e # "none" \/ last THEN <<>> ELSE device_names
           /\ Goto(after(e, IF last THEN AfterReport
                            ELSE Position("report_source", "", idx + 1)))
  /\ UNCHANGED <<host, special, remoteSettings, source_name, mode, ops, ret>>

\* set_audio_device_settings, first statement of a loop body:
\* source_name = await ws.get_obs_audio_device_name(conf['obs_device'])
ApplyGetName ==
  /\ pc = "apply_name"
  /\ \E okc \in BOOLEAN, oks \in BOOLEAN :
       LET conf == Routes(group)[idx]
           r == get_obs_audio_device_name(Self, conf.obs_device, okc, oks)
       IN  /\ connected' = r.sess.connected
           /\ log' = r.sess.log
           /\ err' = r.sess.err
           /\ source_name' = r.value
           /\ Goto(after(r.sess.err, Position("apply_set", group, idx)))
  /\ UNCHANGED <<host, special, remoteSettings, out, device_names, mode, ops, ret>>

\* set_audio_device_settings, rest of a loop body:
\* device = adm.input_by_name(conf['device_name'], replace_default=True)
\* (output_by_name in the second loop); await set_obs_source(...)
ApplySetSource ==
  /\ pc = "apply_set"
  /\ \E okc \in BOOLEAN, oks \in BOOLEAN :
       LET conf == Routes(group)[idx]
           d == IF group = "inputs" THEN input_by_name(conf.device_name, TRUE)
                ELSE output_by_name(conf.device_name, TRUE)
           found == d.res.kind = "device"
           r == set_obs_source(Self, source_name, d.res.dev, okc, oks,
                               <<group, idx>>)
           e == IF found THEN r.sess.err ELSE d.res.kind
       IN  /\ connected' = IF found THEN r.sess.connected ELSE connected
           /\ log' = IF found THEN r.sess.log ELSE log
           /\ out' = out \o (IF found THEN r.prints ELSE d.prints)
           /\ err' = e
           /\ remoteSettings' = IF e = "none"
                                THEN RemoteAfterSet(source_name, d.res.dev.id)
                                ELSE remoteSettings
           /\ Goto(after(e, NextRoute(group, idx)))
  /\ source_name' = ""
  /\ UNCHANGED <<host, special, device_names, mode, ops, ret>>

\* main: await ws.disconnect()
MainDisconnect ==
  /\ pc = "disconnect"
  /\ \E ok \in BOOLEAN :
       LET s == disconnect(Self, ok)
       IN  /\ connected' = s.connected
           /\ log' = s.log
           /\ err' = s.err
           /\ Goto(after(s.err, Position("done", "", 0)))
  /\ UNCHANGED <<host, special, remoteSettings, out, device_names,
                 source_name, mode, ops, ret>>

Next ==
  \/ MainConnect
  \/ ReportGetDevices
  \/ ReportSource
  \/ ApplyGetName
  \/ ApplySetSource
  \/ MainDisconnect

Spec == Init /\ [][Next]_vars

\* ---------------------------------- session operations in any order
\* A caller invokes one operation of the OBSWebsocket; an exception it
\* raises reaches the caller, who may go on using the object.
CanInvoke == mode = "session" /\ pc = "idle" /\ ops < MaxOps

Returned(s, op, arg, value) ==
  /\ connected' = s.connected
  /\ log' = s.log
  /\ err' = s.err
  /\ ops' = ops + 1
  /\ ret' = Ret(op, arg, s.err, NoDevice, IF s.err = "none" THEN value ELSE "")
  /\ UNCHANGED <<host, special, out, pc, group, idx, device_names,
                 source_name, mode>>

SConnect ==
  /\ CanInvoke
  /\ \E ok \in BOOLEAN : Returned(connect(Self, ok), "connect", "", "")
  /\ UNCHANGED remoteSettings

SDisconnect ==
  /\ CanInvoke
  /\ \E ok \in BOOLEAN : Returned(disconnect(Self, ok), "disconnect", "", "")
  /\ UNCHANGED remoteSettings

\* ws.call('SetSourceSettings', ...) by a caller of its own, for the
\* source of the first microphone role
SCall ==
  /\ CanInvoke
  /\ \E okc \in BOOLEAN, oks \in BOOLEAN :
       LET l == LabelOf(InputRoleKeys[1])
           s == call(Self, "SetSourceSettings", l, "m1", okc, oks, NoRoute)
       IN  /\ Returned(s, "call", l, "")
           /\ remoteSettings' = IF s.err = "none" THEN RemoteAfterSet(l, "m1")
                                ELSE remoteSettings

\* set_obs_source(ws, source_name, device) for an enumerated device
SSetObsSource ==
  /\ CanInvoke
  /\ \E okc \in BOOLEAN, oks \in BOOLEAN, l \in DOMAIN remoteSettings,
        j \in 1..Len(all_devices) :
       LET device == all_devices[j]
           r == set_obs_source(Self, l, device, okc, oks, NoRoute)
       IN  /\ connected' = r.sess.connected
           /\ log' = r.sess.log
           /\ err' = r.sess.err
           /\ out' = out \o r.prints
           /\ ret' = Ret("set_obs_source", l, r.sess.err, device, "")
           /\ remoteSettings' = IF r.sess.err = "none"
                                THEN RemoteAfterSet(l, device.id)
                                ELSE remoteSettings
  /\ ops' = ops + 1
  /\ UNCHANGED <<host, special, pc, group, idx, device_names, source_name,
                 mode>>

SGetAudioDevices ==
  /\ CanInvoke
  /\ \E okc \in BOOLEAN, oks \in BOOLEAN :
       Returned(get_audio_devices(Self, okc, oks).sess, "get_audio_devices",
                "", "")
  /\ UNCHANGED remoteSettings

SGetObsAudioDeviceName ==
  /\ CanInvoke
  /\ \E okc \in BOOLEAN, oks \in BOOLEAN, role \in {"mic-1", "mic-3"} :
       LET r == get_obs_audio_device_name(Self, role, okc, oks)
       IN  Returned(r.sess, "get_obs_audio_device_name", role, r.value)
  /\ UNCHANGED remoteSettings

SGetAudiodeviceSettings ==
  /\ CanInvoke
  /\ \E okc \in BOOLEAN, oks \in BOOLEAN, l \in DOMAIN remoteSettings :
       LET r == get_audiodevice_settings(Self, l, okc, oks)
       IN  Returned(r.sess, "get_audiodevice_settings", l, r.value)
  /\ UNCHANGED remoteSettings

\* print_sources_settings is entered; its steps are ReportGetDevices and
\* ReportSource.
SPrintSourcesSettings ==
  /\ CanInvoke
  /\ pc' = "report_get"
  /\ ops' = ops + 1
  /\ err' = "none"
  /\ ret' = Ret("print_sources_settings", "", "none", NoDevice, "")
  /\ UNCHANGED <<host, connected, special, remoteSettings, log, out, group,
                 idx, device_names, source_name, mode>>

NextSession ==
  \/ SConnect
  \/ SDisconnect
  \/ SCall
  \/ SSetObsSource
  \/ SGetAudioDevices
  \/ SGetObsAudioDeviceName
  \/ SGetAudiodeviceSettings
  \/ SPrintSourcesSettings
  \/ ReportGetDevices
  \/ ReportSource

SessionSpec == InitSession /\ [][NextSession]_vars

\* --------------------------- AudioDeviceManager lookups in any order
\* The ids a caller may ask device_by_id for: ids of enumerated devices,
\* ids no device has, and the string 'default'.
LookupIds == {"m1", "m2", "s1", "s2", "zz", "default"}

\* Before AudioDeviceManager(config) on any host within the bounds; the
\* platform reports some default microphone and default speaker.
InitResolve ==
  /\ mode = "resolve"
  /\ pc = "new"
  /\ Idle
  /\ \E sn \in SeqsUpTo(DeviceNames, MaxDevices) :
       \E mn \in SeqsUpTo(DeviceNames, MaxDevices - Len(sn)) :
         /\ speakers = Devices(sn, SpeakerIds)
         /\ mics = Devices(mn, MicIds)
  /\ inputs = <<>>
  /\ outputs = <<>>
  /\ default_input = NoField
  /\ default_output = NoField
  /\ os_default \in [input : DeviceNames, output : DeviceNames]
  /\ special = SpecialOf({})
  /\ remoteSettings = SpecialOf({})

\* AudioDeviceManager.__init__: config.get('defaultOutput',
\* soundcard.default_speaker().name), and the same for the input; the
\* configuration may or may not have each key.
Construct ==
  /\ mode = "resolve" /\ pc = "new"
  /\ \E ci \in ConfigNames \cup {NoField}, co \in ConfigNames \cup {NoField} :
       /\ default_output' = IF co = NoField THEN os_default.output ELSE co
       /\ default_input' = IF ci = NoField THEN os_default.input ELSE ci
  /\ pc' = "idle"
  /\ UNCHANGED <<speakers, mics, inputs, outputs, connected, special,
                 remoteSettings, log, out, group, idx, device_names,
                 source_name, err, mode, ops, os_default, ret>>

\* The user makes another device the platform's default.
OsDefaultChanges ==
  /\ mode = "resolve"
  /\ os_default' \in [input : DeviceNames, output : DeviceNames] \ {os_default}
  /\ UNCHANGED <<speakers, mics, inputs, outputs, default_input,
                 default_output, connected, special, remoteSettings, log, out,
                 pc, group, idx, device_names, source_name, err, mode, ops, ret>>

CanLookup == mode = "resolve" /\ pc = "idle" /\ ops < MaxOps

Looked(op, arg, res, prints) ==
  /\ ret' = Ret(op, arg, res.kind, res.dev, "")
  /\ out' = out \o prints
  /\ ops' = ops + 1
  /\ UNCHANGED <<host, connected, special, remoteSettings, log, pc, group,
                 idx, device_names, source_name, err, mode>>

RInputByName ==
  /\ CanLookup
  /\ \E name \in ConfigNames, replace_default \in BOOLEAN :
       LET r == input_by_name(name, replace_default)
       IN  Looked("input_by_name", name, r.res, r.prints)

ROutputByName ==
  /\ CanLookup
  /\ \E name \in ConfigNames, replace_default \in BOOLEAN :
       LET r == output_by_name(name, replace_default)
       IN  Looked("output_by_name", name, r.res, r.prints)

RGetDefault ==
  /\ CanLookup
  /\ \E is_input \in {"True", "False"} :
       Looked("get_default", is_input, get_default(is_input), <<>>)

RDeviceById ==
  /\ CanLookup
  /\ \E id \in LookupIds :
       Looked("device_by_id", id, device_by_id(id), <<>>)

NextResolve ==
  \/ Construct
  \/ OsDefaultChanges
  \/ RInputByName
  \/ ROutputByName
  \/ RGetDefault
  \/ RDeviceById

ResolveSpec == InitResolve /\ [][NextResolve]_vars

\* ============================================================ properties
Ended == mode = "main" /\ pc \in {"done", "failed"}

IsCommand(e) == e.cmd \notin {"connect", "disconnect"}

\* The SetSourceSettings commands sent on behalf of route i of group g.
SetCalls(g, i) ==
  {k \in 1..Len(log) : log[k].cmd = "SetSourceSettings" /\ log[k].route = <<g, i>>}

ConfiguredRoutes ==
  {<<"inputs", i>> : i \in 1..Len(inputs)} \cup
  {<<"outputs", i>> : i \in 1..Len(outputs)}
Conf(r) == Routes(r[1])[r[2]]

\* The devices of a route's direction and the matches of a name among them.
DevicesOf(g) == IF g = "inputs" THEN mics ELSE speakers
Matches(name, g) ==
  {j \in 1..Len(DevicesOf(g)) : DevicesOf(g)[j].name = name}

\* The name a route's spec stands for: the configured name, or for a
\* Default spec the name the defaults context holds for the direction.
SpecName(r) ==
  IF Conf(r).device_name # "default" THEN Conf(r).device_name
  ELSE IF r[1] = "inputs" THEN default_input ELSE default_output

ByName(r) == Conf(r).device_name # "default"
NoTransportFailure == \A k \in 1..Len(log) : log[k].ok

\* The apply sub-pass was entered and no transport failure or missing
\* response field ended the run.
PassRan == Ended /\ err \notin {"TransportError", "KeyError"}

\* C1: in a synchronization pass over routes configured by name in which
\* exactly one route's name matches no device of its direction and every
\* other route's name matches exactly one, a SetSourceSettings is issued for
\* each of the other routes and none for the failing one, and the failure
\* is reported.
C1_PassContinuesAfterUnresolvable ==
  (/\ PassRan
   /\ \A r \in ConfiguredRoutes : ByName(r)
   /\ Cardinality({r \in ConfiguredRoutes : Matches(SpecName(r), r[1]) = {}}) = 1
   /\ \A r \in ConfiguredRoutes : Cardinality(Matches(SpecName(r), r[1])) <= 1)
  => /\ \A r \in ConfiguredRoutes :
          IF Matches(SpecName(r), r[1]) = {}
          THEN /\ SetCalls(r[1], r[2]) = {}
               /\ \E k \in 1..Len(out) :
                    out[k].kind = "not_found" /\ out[k].name = SpecName(r)
          ELSE SetCalls(r[1], r[2]) # {}

\* C2: a route configured as 'default' is set to a device of its own
\* direction whose display name is the defaults context's name for that
\* direction.
C2_DefaultResolvedInOwnDirection ==
  \A r \in ConfiguredRoutes :
    ~ByName(r) =>
      \A k \in SetCalls(r[1], r[2]) :
        log[k].ok =>
          \E j \in Matches(SpecName(r), r[1]) :
            DevicesOf(r[1])[j].id = log[k].device_id

\* C3: a source whose GetSourceSettings response carries device_id
\* "default" is reported as set to 'default', never as a device id unknown
\* to the host, and without fetching the host enumeration.
C3_DefaultReportedAsDefault ==
  \A k \in 1..Len(out) :
    /\ out[k].kind = "unknown" => out[k].name # "default"
    /\ out[k].kind = "default" => out[k].searched = "none"

FirstMatch(name, g) ==
  DevicesOf(g)[CHOOSE j \in Matches(name, g) : \A h \in Matches(name, g) : j <= h]

NewEvents == (Len(log) + 1)..Len(log')

\* C5: no command is sent while the session is not Connected; a step that
\* sends a command from a Disconnected session has completed a handshake
\* first and leaves the session Connected.
C5_CommandsOnlyWhileConnected ==
  /\ [](\A k \in 1..Len(log) : IsCommand(log[k]) => log[k].conn)
  /\ [][\A k \in NewEvents :
          IsCommand(log'[k]) =>
            /\ connected'
            /\ ~connected =>
                 \E j \in NewEvents :
                   j < k /\ log'[j].cmd = "connect" /\ log'[j].ok]_vars

\* An operation invoked on a session that an earlier disconnect() closed
\* has reconnected and sent its command.
C5_Witness ==
  \E k \in 1..Len(log) :
    /\ k + 2 <= Len(log)
    /\ log[k].cmd = "disconnect" /\ log[k].ok
    /\ log[k + 1].cmd = "connect" /\ log[k + 1].ok
    /\ IsCommand(log[k + 2]) /\ log[k + 2].ok

\* C6: connect() on a Connected session and disconnect() on a Disconnected
\* one do nothing on the transport, raise nothing and leave the state as it
\* is; every handshake starts from Disconnected and every teardown from
\* Connected.
C6_LifecycleIdempotent ==
  /\ [](\A k \in 1..Len(log) :
          /\ log[k].cmd = "connect" => ~log[k].conn
          /\ log[k].cmd = "disconnect" => log[k].conn)
  /\ [][(SConnect /\ connected) =>
          (log' = log /\ connected' /\ err' = "none")]_vars
  /\ [][(SDisconnect /\ ~connected) =>
          (log' = log /\ ~connected' /\ err' = "none")]_vars

\* disconnect() or connect() once, then connect() twice more: one handshake.
C6_Witness ==
  /\ mode = "session" /\ ops = 3 /\ connected
  /\ Len(log) = 1 /\ log[1].cmd = "connect" /\ log[1].ok

\* C7: for an input route whose spec (a configured name, or the defaults
\* context's name for a Default spec) matches no microphone, no
\* SetSourceSettings is issued, and when the resolution failure ends the
\* route a diagnostic naming the requested name has been printed together
\* with the listing of the available devices.
C7_UnresolvableInputDiagnosed ==
  \A r \in ConfiguredRoutes :
    (r[1] = "inputs" /\ Matches(SpecName(r), r[1]) = {})
      => /\ SetCalls(r[1], r[2]) = {}
         /\ (/\ mode = "main" /\ pc = "failed"
             /\ group = r[1] /\ idx = r[2]
             /\ err \in {"ValueError", "IndexError"})
              => \E k \in 1..Len(out) :
                   /\ out[k].kind = "not_found"
                   /\ out[k].name = SpecName(r)
                   /\ out[k].listing = print_device_listing

\* The route's device spec resolves to a device.
Resolves(r) ==
  LET d == IF r[1] = "inputs" THEN input_by_name(Conf(r).device_name, TRUE)
           ELSE output_by_name(Conf(r).device_name, TRUE)
  IN  d.res.kind = "device"

\* C8: when the run has ended without a transport failure and every
\* route's device spec resolves, every route whose role key the
\* GetSpecialSources response carries has had its SetSourceSettings issued,
\* and every special source whose settings carry a device_id has been
\* reported: a missing field stops only the route or source it belongs to.
C8_MissingFieldSkipsOnlyItsRoute ==
  (Ended /\ NoTransportFailure /\ \A r \in ConfiguredRoutes : Resolves(r))
  => /\ \A r \in ConfiguredRoutes :
          Conf(r).obs_device \in DOMAIN special => SetCalls(r[1], r[2]) # {}
     /\ \A i \in 1..Len(SpecialValues) :
          remoteSettings[SpecialValues[i]] # NoField
            => \E k \in 1..Len(out) :
                 /\ out[k].kind \in {"unknown", "default", "device"}
                 /\ out[k].source = SpecialValues[i]

\* C9: a transport action that fails is the last transport action of the
\* run, and the run has ended with the transport's error.
C9_TransportFailureEndsRun ==
  \A k \in 1..Len(log) :
    ~log[k].ok => /\ k = Len(log)
                  /\ pc = "failed"
                  /\ err = "TransportError"

\* A SetSourceSettings failed while input routes were still to be applied.
C9_Witness ==
  /\ mode = "main" /\ pc = "failed" /\ err = "TransportError"
  /\ Len(log) > 0
  /\ log[Len(log)].cmd = "SetSourceSettings" /\ ~log[Len(log)].ok
  /\ group = "inputs" /\ idx < Len(inputs)

\* C10: in a pass that no transport failure or missing response field
\* ended, every route whose configured name is the display name of exactly
\* one device of its direction, with native id X, has exactly one
\* SetSourceSettings, with sourceName the label of the route's role key and
\* device_id X.
C10_UniqueNameAppliedOnce ==
  PassRan =>
    \A r \in ConfiguredRoutes :
      (/\ ByName(r)
       /\ Cardinality(Matches(SpecName(r), r[1])) = 1
       /\ Conf(r).obs_device \in DOMAIN special)
        => /\ Cardinality(SetCalls(r[1], r[2])) = 1
           /\ \A k \in SetCalls(r[1], r[2]) :
                /\ log[k].sourceName = special[Conf(r).obs_device]
                /\ log[k].device_id = FirstMatch(SpecName(r), r[1]).id

\* The direction a by-name lookup was asked for.
RetDirection == IF ret.op = "input_by_name" THEN "inputs" ELSE "outputs"

\* C11: input_by_name and output_by_name (device_by_name with the
\* direction fixed), asked for a name other than 'default' that is the
\* display name of exactly one device of the requested direction, return
\* that device's record, whatever the other direction's list holds.
C11_UniqueNameResolvedInDirection ==
  (/\ ret.op \in {"input_by_name", "output_by_name"}
   /\ ret.arg # "default"
   /\ Cardinality(Matches(ret.arg, RetDirection)) = 1)
  => /\ ret.kind = "device"
     /\ ret.dev = FirstMatch(ret.arg, RetDirection)

\* output_by_name returned the only speaker of a name that a microphone
\* carries too.
C11_Witness ==
  /\ ret.op = "output_by_name"
  /\ ret.arg # "default"
  /\ Cardinality(Matches(ret.arg, "outputs")) = 1
  /\ Matches(ret.arg, "inputs") # {}
  /\ ret.kind = "device"
  /\ ret.dev = FirstMatch(ret.arg, "outputs")

\* C12: device_by_id, asked for an id that no enumerated device (speakers
\* and microphones together) has, returns None: it raises nothing and
\* returns neither the string 'default' nor a device record.
C12_AbsentIdNotFound ==
  (/\ ret.op = "device_by_id"
   /\ \A j \in 1..Len(all_devices) : all_devices[j].id # ret.arg)
  => ret.kind = "None"

\* device_by_id returned None for an id that none of the enumerated devices
\* has.
C12_Witness ==
  /\ ret.op = "device_by_id"
  /\ ret.arg = "zz"
  /\ Len(all_devices) > 0
  /\ ret.kind = "None"

\* The SetSourceSettings commands for source l that the remote controller
\* acknowledged.
Delivered(l) ==
  {k \in 1..Len(log) :
     log[k].cmd = "SetSourceSettings" /\ log[k].sourceName = l /\ log[k].ok}
LastDelivered(l) == CHOOSE k \in Delivered(l) : \A h \in Delivered(l) : h <= k

\* C13: set_obs_source(ws, l, device) that returns has had a
\* SetSourceSettings for source l with device_id device.id acknowledged, and
\* get_audiodevice_settings(l) returns the device_id of the last
\* SetSourceSettings acknowledged for l, whatever was sent for other
\* sources or read in between.
C13_SetThenGetRoundTrip ==
  /\ [][(ret'.op = "set_obs_source" /\ ret'.kind = "none" /\ ops' = ops + 1)
        => /\ Len(log') > Len(log)
           /\ log'[Len(log')].cmd = "SetSourceSettings"
           /\ log'[Len(log')].ok
           /\ log'[Len(log')].sourceName = ret'.arg
           /\ log'[Len(log')].device_id = ret'.dev.id]_vars
  /\ []((/\ ret.op = "get_audiodevice_settings"
         /\ ret.kind = "none"
         /\ Delivered(ret.arg) # {})
        => ret.value = log[LastDelivered(ret.arg)].device_id)

\* get_audiodevice_settings returned the id that the last set_obs_source
\* for the same source sent, after a SetSourceSettings for another source
\* with another id.
C13_Witness ==
  /\ ret.op = "get_audiodevice_settings"
  /\ ret.kind = "none"
  /\ Delivered(ret.arg) # {}
  /\ ret.value = log[LastDelivered(ret.arg)].device_id
  /\ ret.value # "default"
  /\ \E k \in 1..Len(log) :
       /\ k > LastDelivered(ret.arg)
       /\ log[k].cmd = "SetSourceSettings" /\ log[k].ok
       /\ log[k].sourceName # ret.arg
       /\ log[k].device_id # ret.value

\* The SetSourceSettings commands sent, and the place of a route in the
\* configuration read inputs first.
SetEvents == {k \in 1..Len(log) : log[k].cmd = "SetSourceSettings"}
RouteRank(r) == IF r[1] = "inputs" THEN r[2] ELSE Len(inputs) + r[2]

\* C14: in a run of main the SetSourceSettings commands follow the
\* configuration: each is sent for a configured route, a command for a route
\* earlier in the configuration (inputs before outputs, list order within a
\* group) comes earlier, and each is directly preceded by its route's
\* GetSpecialSources, which therefore follows the previous route's
\* SetSourceSettings.
C14_ApplyFollowsConfiguration ==
  mode = "main" =>
    \A k \in SetEvents :
      /\ log[k].route \in ConfiguredRoutes
      /\ k > 1
      /\ log[k - 1].cmd = "GetSpecialSources" /\ log[k - 1].ok
      /\ \A h \in SetEvents :
           h < k => /\ RouteRank(log[h].route) < RouteRank(log[k].route)
                    /\ h < k - 1

\* A completed run that applied two input routes and then an output route.
C14_Witness ==
  /\ mode = "main" /\ pc = "done"
  /\ \E h \in SetEvents, j \in SetEvents, k \in SetEvents :
       /\ h < j /\ j < k
       /\ log[h].route = <<"inputs", 1>>
       /\ log[j].route = <<"inputs", 2>>
       /\ log[k].route = <<"outputs", 1>>

\* print_sources_settings is running.
Reporting == pc \in {"report_get", "report_source"}

\* C15: a step of print_sources_settings sends no SetSourceSettings and
\* leaves the remote controller's settings and default_input and
\* default_output as they were; in a run of main no SetSourceSettings has
\* been sent while print_sources_settings has not returned, and every
\* GetSourceSettings precedes every SetSourceSettings.
C15_ReportingReadOnly ==
  /\ [][Reporting =>
          /\ remoteSettings' = remoteSettings
          /\ default_input' = default_input
          /\ default_output' = default_output
          /\ \A k \in NewEvents : log'[k].cmd # "SetSourceSettings"]_vars
  /\ [](mode = "main" =>
          /\ (pc = "start" \/ Reporting) => SetEvents = {}
          /\ \A k \in SetEvents : \A j \in 1..Len(log) :
               log[j].cmd = "GetSourceSettings" => j < k)

\* A run that reported three sources and then sent a SetSourceSettings.
C15_Witness ==
  /\ mode = "main"
  /\ \E k \in SetEvents :
       /\ log[k].ok
       /\ Cardinality({j \in 1..k : log[j].cmd = "GetSourceSettings"}) = 3
  /\ Len(out) > 3

\* C16: in every run of main no SetSourceSettings carries device_id
\* 'default'; each carries the id of an enumerated device, and for a route
\* configured as 'default' that device has a name held by the defaults
\* context (default_input or default_output).
C16_NoRawDefaultPushed ==
  mode = "main" =>
    \A k \in SetEvents :
      /\ log[k].device_id # "default"
      /\ \E j \in 1..Len(all_devices) :
           /\ all_devices[j].id = log[k].device_id
           /\ ~ByName(log[k].route) =>
                all_devices[j].name \in {default_input, default_output}

\* A SetSourceSettings was delivered for an input route and for an output
\* route that are both configured as 'default'.
C16_Witness ==
  /\ mode = "main"
  /\ \E h \in SetEvents, k \in SetEvents :
       /\ log[h].ok /\ log[k].ok
       /\ log[h].route[1] = "inputs" /\ ~ByName(log[h].route)
       /\ log[k].route[1] = "outputs" /\ ~ByName(log[k].route)

\* The last lookup resolved 'default' for a direction.
DefaultLookup ==
  \/ ret.op = "get_default"
  \/ ret.op \in {"input_by_name", "output_by_name"} /\ ret.arg = "default"
DefaultLookupIsInput ==
  ret.op = "input_by_name" \/ (ret.op = "get_default" /\ ret.arg = "True")

\* The name the AudioDeviceManager holds for a direction; a stored
\* default_output of 'default' stands for default_input.
StoredDefault(is_input) ==
  IF is_input \/ default_output = "default" THEN default_input ELSE default_output

\* C17: once the AudioDeviceManager is constructed no step changes
\* default_input or default_output, whatever the platform reports as its
\* default devices afterwards, and a lookup of 'default' that returns a
\* device returns one that carries the stored name.
C17_DefaultsFixedAtConstruction ==
  /\ [][pc # "new" => /\ default_input' = default_input
                       /\ default_output' = default_output]_vars
  /\ []((DefaultLookup /\ ret.kind = "device")
        => ret.dev.name = StoredDefault(DefaultLookupIsInput))

\* A lookup of the input default that followed an earlier lookup returned
\* a device of the stored name although the platform's default microphone
\* is by now another enumerated microphone.
C17_Witness ==
  /\ mode = "resolve" /\ ops >= 2
  /\ ret.op = "get_default" /\ ret.arg = "True"
  /\ ret.kind = "device"
  /\ ret.dev.name = default_input
  /\ os_default.input # default_input
  /\ Matches(os_default.input, "inputs") # {}

\* C18 as claimed: a lookup of 'default' for a direction ends by returning
\* a device record or by raising a resolution error (IndexError from
\* select_device, ValueError from device_by_name), also when the stored
\* default name is itself 'default'.
C18_DefaultResolutionTerminates ==
  DefaultLookup => ret.kind \in {"device", "IndexError", "ValueError"}

\* The transport actions of one kind in the history.
EventsOf(cmd) == {k \in 1..Len(log) : log[k].cmd = cmd}

\* C19: when main has returned, the transport history holds exactly one
\* connect, as its first action, and exactly one disconnect, as its last,
\* every action in it succeeded, and the session is not connected.
C19_OneHandshakeOneDisconnect ==
  (mode = "main" /\ pc = "done")
  => /\ Cardinality(EventsOf("connect")) = 1
     /\ Cardinality(EventsOf("disconnect")) = 1
     /\ log[1].cmd = "connect"
     /\ log[Len(log)].cmd = "disconnect"
     /\ \A k \in 1..Len(log) : log[k].ok
     /\ \A k \in 1..Len(log) : IsCommand(log[k]) => 1 < k /\ k < Len(log)
     /\ ~connected

\* main has returned after reporting three sources and applying three
\* routes.
C19_Witness ==
  /\ mode = "main" /\ pc = "done"
  /\ Cardinality(EventsOf("GetSourceSettings")) = 3
  /\ Cardinality(EventsOf("SetSourceSettings")) = 3
  /\ ~connected

====
